---- MODULE Spec2Model ----
(***************************************************************************)
(* A model of ModScout.py: the bounded breadth-first walk scan_roots over  *)
(* a live object graph, the SafeGetAttr accessor, the object classifier    *)
(* and the rule engine match_rules.                                        *)
(*                                                                         *)
(* The object graph of the host process is the function Heap below.  One   *)
(* behaviour is one call of scan_roots: Init draws the arguments of the    *)
(* call, every later step is one pass of one of its two loops.             *)
(***************************************************************************)
EXTENDS Integers, Sequences, FiniteSets, TLC

(***************************************************************************)
(* Bounds of the explored inputs.                                          *)
(***************************************************************************)
MaxDepthBound == 1
MaxObjectsBound == 2

(***************************************************************************)
(* Python values.  None is Python's None; a name that is not a string is   *)
(* never compared equal to it.                                             *)
(***************************************************************************)
None == "<None>"

\* how an f-string shows a value that is a string or None
Format(x) == IF x = None THEN "None" ELSE x

\* x or y, for values that are a string or None
Or(x, y) == IF x # None /\ x # "" THEN x ELSE y

\* str.startswith
StartsWith(s, p) == Len(p) <= Len(s) /\ SubSeq(s, 1, Len(p)) = p

\* str.endswith
EndsWith(s, p) == Len(p) <= Len(s) /\ SubSeq(s, Len(s) - Len(p) + 1, Len(s)) = p

\* the test of line 300: n.startswith("__") and n.endswith("__")
IsDunder(n) == StartsWith(n, "__") /\ EndsWith(n, "__")

\* the empty mapping
EmptyMap == [x \in {} |-> None]

SYSTEM_MODULES ==
    { "os", "sys", "subprocess", "ctypes", "multiprocessing", "pathlib", "socket",
      "ssl", "http", "ftplib", "telnetlib", "select", "selectors", "shutil",
      "signal", "resource", "fcntl", "pty", "platform", "shlex", "winreg", "uuid",
      "tempfile", "atexit", "importlib" }

SYSTEM_CALLABLES ==
    { "system", "popen", "Popen", "run", "call", "check_call", "check_output",
      "spawn", "spawnl", "spawnle", "spawnlp", "spawnlpe",
      "spawnv", "spawnve", "spawnvp", "spawnvpe",
      "execv", "execve", "execl", "execlp", "execlpe", "execvp", "execvpe",
      "fork", "forkpty",
      "open", "unlink", "remove", "rmdir", "rmtree", "mkfifo", "mknod",
      "chmod", "chown" }

(***************************************************************************)
(* The host.  Heap maps an object identity (id(obj)) to what reflection    *)
(* shows of the object:                                                    *)
(*   kind       module, class, function, instance or str                   *)
(*   typeName   type(obj).__name__                                         *)
(*   nameKind   how obj.__name__ reads: a str, absent, or an int           *)
(*   name       the value of obj.__name__ when it is a str, its digits     *)
(*              when it is an int                                          *)
(*   hasDict    whether obj.__dict__ exists                                *)
(*   dict       the declared attribute table obj.__dict__: name -> id      *)
(*   dirNames   the names dir(obj) adds to the keys of the table           *)
(*   dirRaises  whether dir(obj) raises                                    *)
(*   computed   what getattr(obj, name) gives for a name outside the       *)
(*              table: an id, or Raises                                    *)
(*   descRaises whether reading __module__, __qualname__ and __name__ of   *)
(*              the object raises                                          *)
(*   module, qualname, file, origin                                        *)
(*              __module__, __qualname__, __file__, __spec__.origin        *)
(***************************************************************************)
Raises == 0

Blank ==
    [ kind |-> "instance", typeName |-> "object", nameKind |-> "absent", name |-> None,
      hasDict |-> TRUE, dict |-> EmptyMap, dirNames |-> {}, dirRaises |-> FALSE,
      computed |-> EmptyMap, descRaises |-> FALSE,
      module |-> None, qualname |-> None, file |-> None, origin |-> None ]

Module(n, d, f, o) ==
    [ Blank EXCEPT !.kind = "module", !.typeName = "module", !.nameKind = "str",
                   !.name = n, !.dict = d, !.file = f, !.origin = o ]

Function(n, m) ==
    [ Blank EXCEPT !.kind = "function", !.typeName = "function", !.nameKind = "str",
                   !.name = n, !.qualname = n, !.module = m ]

StdlibPath == "/lib"

Heap ==
    \* a module with the one declared attribute danger, bound to os.system
    1 :> Module("root", ("danger" :> 2 @@ "__doc__" :> 12), "/app/root.py", "/app/root.py") @@
    2 :> Function("system", "os") @@
    \* a module with two attributes bound to the same module object
    3 :> Module("app", ("a" :> 4 @@ "b" :> 4), "/app/app.py", "/app/app.py") @@
    4 :> Module("os", ("system" :> 2 @@ "sys" :> 5), "/lib/os.py", "/lib/os.py") @@
    5 :> Module("sys", EmptyMap, None, "built-in") @@
    \* a module that reaches a vendored module, a class that refers back to
    \* the module, and a module whose __name__ was rebound to an int
    6 :> Module("host", ("v" :> 7 @@ "K" :> 8 @@ "w" :> 11), "/app/host.py", "/app/host.py") @@
    7 :> Module("vendor.tools", ("popen" :> 9), "/site/vendor/tools.py", "/site/vendor/tools.py") @@
    8 :> [ Blank EXCEPT !.kind = "class", !.typeName = "type", !.nameKind = "str",
                        !.name = "K", !.qualname = "K", !.module = "host",
                        !.dict = ("home" :> 6 @@ "cfg" :> 10),
                        !.dirNames = {"run"}, !.computed = ("run" :> 2) ] @@
    \* a function with an attribute of its own, bound to None
    9 :> [ Function("popen", "vendor.tools") EXCEPT !.dict = ("cache" :> 13) ] @@
    \* an instance with a property that raises and unreadable metadata
    10 :> [ Blank EXCEPT !.typeName = "Cfg", !.dirNames = {"lazy"},
                         !.computed = ("lazy" :> Raises), !.descRaises = TRUE ] @@
    11 :> [ Module("5", EmptyMap, None, None) EXCEPT !.nameKind = "int" ] @@
    12 :> [ Blank EXCEPT !.kind = "str", !.typeName = "str", !.hasDict = FALSE ] @@
    \* None
    13 :> [ Blank EXCEPT !.typeName = "NoneType", !.hasDict = FALSE ] @@
    \* the root of DEFAULT_CONFIG: a module that imports os under a private name
    14 :> Module("random", ("_os" :> 4), "/lib/random.py", "/lib/random.py")

Objects == DOMAIN Heap

\* importlib.import_module: the modules the import system resolves by name
Importable == ("root" :> 1 @@ "app" :> 3 @@ "host" :> 6 @@ "random" :> 14)

\* sys.builtin_module_names
BuiltinModuleNames == {"sys", "builtins", "posix"}

(***************************************************************************)
(* Object classifier.                                                      *)
(***************************************************************************)
\* inspect.ismodule
IsModule(o) == Heap[o].kind = "module"

\* inspect.isclass
IsClass(o) == Heap[o].kind = "class"

\* callable(obj): functions and classes can be called
IsCallable(o) == Heap[o].kind \in {"function", "class"}

\* getattr(obj, "__name__", None); an int name is no string and equals none
NameOf(o) == IF Heap[o].nameKind = "str" THEN Heap[o].name ELSE None

is_builtin_module(mod) ==
    \/ NameOf(mod) \in BuiltinModuleNames
    \/ Heap[mod].origin = "built-in"

\* origins of Heap are absolute, normalised paths, which os.path.abspath keeps
is_stdlib_module(mod) ==
    LET origin == Heap[mod].origin IN
    IF origin = None THEN FALSE
    ELSE IF origin = "built-in" THEN TRUE
    ELSE StartsWith(origin, StdlibPath)

is_traversable(child, fc, fi) ==
    IF IsModule(child) THEN TRUE
    ELSE IF fc /\ IsClass(child) THEN TRUE
    ELSE IF fi THEN
        IF Heap[child].kind = "str" THEN FALSE ELSE Heap[child].hasDict
    ELSE FALSE

RECURSIVE Join(_)
\* ".".join(path)
Join(path) ==
    IF Len(path) = 0 THEN ""
    ELSE IF Len(path) = 1 THEN path[1]
    ELSE path[1] \o "." \o Join(Tail(path))

qual_from_path(path) == Join(path)

describe_object(obj) ==
    LET h == Heap[obj] IN
    [ type        |-> IF IsModule(obj) THEN "module" ELSE h.typeName,
      module      |-> IF h.descRaises THEN None ELSE h.module,
      qualname    |-> IF h.descRaises THEN None ELSE h.qualname,
      name        |-> IF h.descRaises THEN None
                      ELSE IF h.nameKind = "int" THEN h.name ELSE NameOf(obj),
      module_file |-> IF IsModule(obj) THEN h.file ELSE None,
      spec_origin |-> IF IsModule(obj) THEN h.origin ELSE None ]

(***************************************************************************)
(* Safe accessor.  The result tells whether the value is _MISSING, the     *)
(* value, and whether getattr(obj, name) was called to get it.             *)
(***************************************************************************)
Missing(viaGetattr) == [missing |-> TRUE, val |-> 0, getattr |-> viaGetattr]

Value(v, viaGetattr) == [missing |-> FALSE, val |-> v, getattr |-> viaGetattr]

\* the accessor falls back to getattr whatever the risk mode is
SafeGetAttr_get_fallback(risk, obj, name) ==
    LET h == Heap[obj] IN
    IF h.hasDict /\ name \in DOMAIN h.dict THEN Value(h.dict[name], FALSE)
    ELSE IF name \in DOMAIN h.computed /\ h.computed[name] # Raises
         THEN Value(h.computed[name], TRUE)
         ELSE Missing(TRUE)

SafeGetAttr_get(risk, obj, name) ==
    LET h == Heap[obj] IN
    IF h.hasDict /\ name \in DOMAIN h.dict THEN Value(h.dict[name], FALSE)
    ELSE IF ~risk THEN Missing(FALSE)
    ELSE IF name \in DOMAIN h.computed /\ h.computed[name] # Raises
         THEN Value(h.computed[name], TRUE)
         ELSE Missing(TRUE)

\* the set of names iter_attr_names collects, before list() orders it
iter_attr_names(obj, use_dir) ==
    LET h == Heap[obj] IN
    (IF h.hasDict THEN DOMAIN h.dict ELSE {})
      \cup (IF use_dir /\ ~h.dirRaises THEN h.dirNames ELSE {})

\* the orders list(names) can produce
Orders(S) ==
    { s \in [1 .. Cardinality(S) -> S] : \A x \in S : \E k \in DOMAIN s : s[k] = x }

(***************************************************************************)
(* Rule engine.                                                            *)
(***************************************************************************)
Rule(t, p, c) == [type |-> t, kind |-> None, pattern |-> p, value |-> None, category |-> c]

RECURSIVE Depth(_, _, _)
\* the nesting of parentheses of pat at its end, or -1 once a closing one
\* has no opening one
Depth(pat, k, d) ==
    IF d < 0 THEN d
    ELSE IF k > Len(pat) THEN d
    ELSE LET c == SubSeq(pat, k, k) IN
         Depth(pat, k + 1, IF c = "(" THEN d + 1 ELSE IF c = ")" THEN d - 1 ELSE d)

\* re.compile(pat) raises re.error: the patterns used here are literal text
\* and parentheses, which compile exactly when the parentheses balance
IsMalformed(pat) == Depth(pat, 1, 0) # 0

\* a repetition count of more digits than this is beyond the largest count
\* the regular expression engine takes, 4294967294
MaxRepeatDigits == 10

Digits == {"0", "1", "2", "3", "4", "5", "6", "7", "8", "9"}

\* re.compile(pat) raises OverflowError, which is no re.error: pat holds a
\* repetition {n} whose count is too large
RepeatOverflows(pat) ==
    \E k \in 1 .. Len(pat) : \E j \in (k + 1) .. Len(pat) :
       /\ SubSeq(pat, k, k) = "{"
       /\ SubSeq(pat, j, j) = "}"
       /\ j - k - 1 > MaxRepeatDigits
       /\ SubSeq(pat, k + 1, k + 1) # "0"
       /\ \A d \in (k + 1) .. (j - 1) : SubSeq(pat, d, d) \in Digits

\* re.search(pat, s) for a pattern of literal text
re_search(pat, s) ==
    \E k \in 1 .. (Len(s) - Len(pat) + 1) : SubSeq(s, k, k + Len(pat) - 1) = pat

\* the configured names are added to the built-in ones
CategorySet_merged(categories, cat, field) ==
    IF cat \in DOMAIN categories
    THEN categories[cat][field] \cup
           (IF cat # "system" THEN {}
            ELSE IF field = "modules" THEN SYSTEM_MODULES ELSE SYSTEM_CALLABLES)
    ELSE {}

\* set(categories.get(cat, {}).get(field, []))
CategorySet(categories, cat, field) ==
    IF cat \in DOMAIN categories THEN categories[cat][field] ELSE {}

\* whether evaluating one rule raises an exception match_rules lets through
RuleRaises(rule, child, name, path) ==
    LET kind == Or(rule.type, rule.kind)
        pat  == Or(rule.pattern, rule.value)
    IN  \/ kind = "module_startswith" /\ IsModule(child) /\ NameOf(child) # None /\ pat = None
        \/ kind = "qualname_regex" /\ pat = None
        \/ kind = "qualname_regex" /\ pat # None /\ RepeatOverflows(pat)

\* the reason of one rule for one node, None when the rule does not match
RuleReason(rule, child, name, path, categories) ==
    LET kind  == Or(rule.type, rule.kind)
        pat   == Or(rule.pattern, rule.value)
        cat   == rule.category
        qpath == qual_from_path(path)
    IN
    CASE kind = "module_name" ->
           IF IsModule(child) /\ Heap[child].nameKind # "int" /\ NameOf(child) = pat
           THEN "module_name == " \o Format(pat) ELSE None
      [] kind = "module_startswith" ->
           IF IsModule(child) /\ NameOf(child) # None /\ StartsWith(NameOf(child), pat)
           THEN "module startswith " \o pat ELSE None
      [] kind = "qualname" ->
           IF qpath = pat THEN "path == " \o pat ELSE None
      [] kind = "qualname_regex" ->
           IF ~IsMalformed(pat) /\ re_search(pat, qpath)
           THEN "path matches /" \o pat \o "/" ELSE None
      [] kind = "callable_name" ->
           IF IsCallable(child) /\ name = pat THEN "callable name == " \o pat ELSE None
      [] kind = "attr_name" ->
           IF name = pat THEN "attr name == " \o pat ELSE None
      [] kind = "builtin_module" ->
           IF IsModule(child) /\ is_builtin_module(child) THEN "builtin module" ELSE None
      [] kind = "stdlib_module" ->
           IF IsModule(child) /\ is_stdlib_module(child) THEN "stdlib module" ELSE None
      [] kind = "category" ->
           LET cm == CategorySet(categories, cat, "modules")
               cc == CategorySet(categories, cat, "callables")
               builtin   == cm = {} /\ cc = {}
               modules   == IF builtin /\ cat = "system" THEN SYSTEM_MODULES ELSE cm
               callables == IF builtin /\ cat = "system" THEN SYSTEM_CALLABLES ELSE cc
           IN  IF cat = "system" THEN
                   IF \/ IsModule(child) /\ NameOf(child) \in modules
                      \/ IsCallable(child) /\ name \in callables
                   THEN "category:" \o cat ELSE None
               ELSE IF cat = "builtin" THEN
                   IF IsModule(child) /\ is_builtin_module(child)
                   THEN "category:" \o cat ELSE None
               ELSE None
      [] OTHER -> None

RECURSIVE Hits(_, _, _, _, _)
\* the hit list of match_rules when no rule raises
Hits(child, name, path, rules, categories) ==
    IF rules = <<>> THEN <<>>
    ELSE LET rule   == Head(rules)
             reason == RuleReason(rule, child, name, path, categories)
             rest   == Hits(child, name, path, Tail(rules), categories)
         IN  IF reason # None /\ reason # ""
             THEN <<[kind |-> Or(rule.type, rule.kind), reason |-> reason, rule |-> rule]>> \o rest
             ELSE rest

\* whether match_rules raises
MatchRaises(child, name, path, rules) ==
    \E k \in DOMAIN rules : RuleRaises(rules[k], child, name, path)

match_rules(child, name, path, rules, categories) ==
    Hits(child, name, path, rules, categories)

(***************************************************************************)
(* The arguments a call of scan_roots is explored with.                    *)
(***************************************************************************)
\* the lists of roots: none, one, an unresolvable one before, after and
\* alone, two modules and the same module twice
RootConfigs ==
    { <<>>, <<"root">>, <<"app">>, <<"host">>, <<"nosuch">>,
      <<"nosuch", "app">>, <<"host", "nosuch">>, <<"app", "host">>, <<"root", "root">> }

\* the rules and categories of a configuration
Config(r, c) == [rules |-> r, categories |-> c]

RuleConfigs ==
    { \* DEFAULT_CONFIG
      Config(<<Rule("category", None, "system"), Rule("category", None, "builtin")>>, EmptyMap),
      \* the one rule on the category system
      Config(<<Rule("category", None, "system")>>, EmptyMap),
      \* a configured definition of the category
      Config(<<Rule("category", None, "system")>>,
             "system" :> [modules |-> {}, callables |-> {"danger"}]),
      \* one rule of a malformed pattern among usable ones
      Config(<<Rule("module_startswith", "vendor", None), Rule("callable_name", "popen", None),
               Rule("attr_name", "cfg", None), Rule("qualname_regex", "(", None),
               Rule("qualname", "app", None)>>, EmptyMap),
      \* a rule without its pattern
      Config(<<Rule("qualname_regex", None, None)>>, EmptyMap) }

\* the defaults of the parameters max_depth and max_objects
DefaultMaxDepth == 5
DefaultMaxObjects == 50000

DepthConfigs == (0 .. MaxDepthBound) \cup {DefaultMaxDepth}

ObjectsConfigs == (0 .. MaxObjectsBound) \cup {DefaultMaxObjects}

\* prune_dunders keeps its default
PruneConfigs == {TRUE}

ExcludeConfigs == { <<>>, <<"vendor">> }

(***************************************************************************)
(* State of one call of scan_roots.                                        *)
(*   roots .. categories   the arguments                                   *)
(*   i          the position of the loop over roots (line 266)             *)
(*   queue, visited, findings, count   the locals of the same names        *)
(*   pc         "run" while the call runs, "done" once it returned         *)
(*              findings, "raised" once an exception left it               *)
(*   warned     the roots a warning was printed for                        *)
(*   getattrs   the number of getattr(obj, name) calls of the accessor     *)
(*   fetched    the (object, name) pairs handed to the accessor            *)
(*   expanded   the (object, depth) frontier entries whose attributes      *)
(*              were enumerated                                            *)
(*   visitSeq   the (object, depth) pairs in the order they were marked    *)
(*              visited                                                    *)
(*   orders     the (object, order) pairs: the order list(names) gave for  *)
(*              each expanded object                                       *)
(***************************************************************************)
VARIABLES roots, rules, max_depth, max_objects, prune_dunders, risk_getattr,
          follow_classes, follow_instances, exclude_module_prefixes, categories,
          i, queue, visited, findings, count, pc, warned, getattrs, fetched, expanded,
          visitSeq, orders

(***************************************************************************)
(* State around a call of scan_roots.                                      *)
(*   prev       the outcome of an earlier call with the same arguments     *)
(*   mpc        the position of main: "off" when scan_roots is called      *)
(*              directly, else "args", "scan", "written"                   *)
(*   DEFAULT_CONFIG  the module-level dictionary of that name              *)
(*   cfg        the local cfg of main                                      *)
(*   cli        the parsed command line of main                            *)
(*   report     the payload main wrote                                     *)
(*   invocations  the number of calls of main so far                       *)
(*   probe      the input and the result of one call of a function that    *)
(*              is applied on its own                                      *)
(***************************************************************************)
VARIABLES prev, mpc, DEFAULT_CONFIG, cfg, cli, report, invocations, probe

harness == <<prev, mpc, DEFAULT_CONFIG, cfg, cli, report, invocations, probe>>

args == <<roots, rules, max_depth, max_objects, prune_dunders, risk_getattr,
          follow_classes, follow_instances, exclude_module_prefixes, categories>>

vars == <<roots, rules, max_depth, max_objects, prune_dunders, risk_getattr,
          follow_classes, follow_instances, exclude_module_prefixes, categories,
          i, queue, visited, findings, count, pc, warned, getattrs, fetched, expanded,
          visitSeq, orders, harness>>

\* the value DEFAULT_CONFIG is bound to when the module is loaded
DefaultConfig ==
    [ roots  |-> <<"random">>,
      rules  |-> <<Rule("category", None, "system"), Rule("category", None, "builtin")>>,
      scan   |-> [ max_depth |-> 4, max_objects |-> 60000, prune_dunders |-> TRUE,
                   risk_getattr |-> FALSE, follow_classes |-> TRUE,
                   follow_instances |-> FALSE,
                   exclude_module_prefixes |-> <<"numpy", "pandas", "torch", "tensorflow">> ],
      output |-> [ json_path |-> "modscan_report.json", limit |-> 2000 ] ]

\* scan_roots is called on its own: no earlier call, no main, no probe
HarnessIdle ==
    /\ prev = <<>>
    /\ mpc = "off"
    /\ DEFAULT_CONFIG = DefaultConfig
    /\ cfg = <<>>
    /\ cli = <<>>
    /\ report = <<>>
    /\ invocations = 0
    /\ probe = <<>>

\* the locals of scan_roots at its start, lines 258-264
ScanStart ==
    /\ i = 1
    /\ queue = <<>>
    /\ visited = {}
    /\ findings = <<>>
    /\ count = 0
    /\ warned = <<>>
    /\ getattrs = 0
    /\ fetched = {}
    /\ expanded = {}
    /\ visitSeq = <<>>
    /\ orders = {}

Init ==
    /\ roots \in RootConfigs
    /\ \E c \in RuleConfigs : rules = c.rules /\ categories = c.categories
    /\ max_depth \in DepthConfigs
    /\ max_objects \in ObjectsConfigs
    /\ prune_dunders \in PruneConfigs
    /\ risk_getattr \in BOOLEAN
    /\ follow_classes \in BOOLEAN
    /\ follow_instances \in BOOLEAN
    /\ exclude_module_prefixes \in ExcludeConfigs
    /\ ScanStart
    /\ pc = "run"
    /\ HarnessIdle

\* no object: the parent of a root
NoObject == 0

\* a child is enqueued with the depth of its parent
Entry_parentdepth(obj, name, path, depth, parent) ==
    [obj |-> obj, name |-> name, path |-> path,
     depth |-> IF parent = 0 THEN depth ELSE depth - 1, parent |-> parent]

\* a frontier entry (obj, name, path, depth); parent is the identity of the
\* object the entry was fetched from
Entry(obj, name, path, depth, parent) ==
    [obj |-> obj, name |-> name, path |-> path, depth |-> depth, parent |-> parent]

\* one finding; node is the identity of the object the finding describes,
\* parent the identity of the object it was fetched from and names the
\* discovery path as the list that path joins
Finding(path, name, depth, hit, obj, parent) ==
    [ path |-> qual_from_path(path), name |-> name, depth |-> depth, match |-> hit,
      object |-> describe_object(obj), node |-> obj, parent |-> parent, names |-> path ]

\* the findings one call of match_rules adds
FindingsOf(obj, name, path, depth, parent) ==
    LET hits == match_rules(obj, name, path, rules, categories) IN
    [ k \in 1 .. Len(hits) |-> Finding(path, name, depth, hits[k], obj, parent) ]

(***************************************************************************)
(* The loop over roots, lines 266-271.                                     *)
(***************************************************************************)
ImportRoot ==
    /\ pc = "run"
    /\ i <= Len(roots)
    /\ roots[i] \in DOMAIN Importable
    /\ queue' = Append(queue, Entry(Importable[roots[i]], roots[i], <<roots[i]>>, 0, NoObject))
    /\ i' = i + 1
    /\ UNCHANGED <<args, visited, findings, count, pc, warned, getattrs, fetched, expanded,
                   visitSeq, orders, harness>>

\* the failure of one import ends the loop over roots
ImportRootFails_stop ==
    /\ pc = "run"
    /\ i <= Len(roots)
    /\ roots[i] \notin DOMAIN Importable
    /\ warned' = Append(warned, roots[i])
    /\ i' = Len(roots) + 1
    /\ UNCHANGED <<args, queue, visited, findings, count, pc, getattrs, fetched, expanded,
                   visitSeq, orders, harness>>

ImportRootFails ==
    /\ pc = "run"
    /\ i <= Len(roots)
    /\ roots[i] \notin DOMAIN Importable
    /\ warned' = Append(warned, roots[i])
    /\ i' = i + 1
    /\ UNCHANGED <<args, queue, visited, findings, count, pc, getattrs, fetched, expanded,
                   visitSeq, orders, harness>>

(***************************************************************************)
(* The frontier loop, lines 273-318.                                       *)
(***************************************************************************)
\* the loop runs while the frontier is not empty
LoopGuard_unbudgeted == queue # <<>>

\* the condition of the while statement
LoopGuard == queue # <<>> /\ count < max_objects

InLoop == pc = "run" /\ i > Len(roots)

\* the head is read and left in the queue
PopLeft_peek(q) == q

\* queue.popleft()
PopLeft(q) == Tail(q)

\* the name of the module is compared with the prefixes for equality
IsExcluded_exact(obj) ==
    /\ IsModule(obj)
    /\ \E k \in DOMAIN exclude_module_prefixes : NameOf(obj) = exclude_module_prefixes[k]

\* lines 281-284: the node is a module of an excluded prefix
IsExcluded(obj) ==
    /\ IsModule(obj)
    /\ NameOf(obj) # None /\ NameOf(obj) # ""
    /\ \E k \in DOMAIN exclude_module_prefixes :
          StartsWith(NameOf(obj), exclude_module_prefixes[k])

\* line 283 calls startswith on a name that is no string
ExcludeRaises(obj) ==
    /\ IsModule(obj)
    /\ Heap[obj].nameKind = "int"
    /\ exclude_module_prefixes # <<>>

\* the depth test is one level late
DepthReached_late(depth) == depth > max_depth

\* line 295
DepthReached(depth) == depth >= max_depth

\* lines 298-300: the candidate names of a node
CandidateNames(obj) ==
    LET names == iter_attr_names(obj, TRUE) IN
    IF prune_dunders THEN { n \in names : ~IsDunder(n) } ELSE names

RECURSIVE ExpandNames(_, _, _, _, _)
\* lines 302-318 for the names of order, from the accumulated acc on; the
\* loop stops at the first call of match_rules that raises
ExpandNames(order, obj, path, depth, acc) ==
    IF order = <<>> \/ acc.raised THEN acc
    ELSE
      LET n     == Head(order)
          got   == SafeGetAttr_get(risk_getattr, obj, n)
          seen  == [acc EXCEPT !.fetched = @ \cup {<<obj, n>>},
                               !.getattrs = @ + (IF got.getattr THEN 1 ELSE 0)]
          child == got.val
          child_path == Append(path, n)
      IN
      IF got.missing THEN ExpandNames(Tail(order), obj, path, depth, seen)
      ELSE IF MatchRaises(child, n, child_path, rules)
      THEN [seen EXCEPT !.raised = TRUE]
      ELSE ExpandNames(Tail(order), obj, path, depth,
             [seen EXCEPT
                !.findings = @ \o FindingsOf(child, n, child_path, depth + 1, obj),
                !.queue = IF is_traversable(child, follow_classes, follow_instances)
                          THEN Append(@, Entry(child, n, child_path, depth + 1, obj))
                          ELSE @])

\* line 276-277: the popped node was visited before
SkipVisited ==
    /\ InLoop
    /\ LoopGuard
    /\ Head(queue).obj \in visited
    /\ queue' = PopLeft(queue)
    /\ UNCHANGED <<args, i, visited, findings, count, pc, warned, getattrs, fetched, expanded,
                   visitSeq, orders, harness>>

\* lines 278-318: one pass of the loop for a node not visited before
Visit ==
    /\ InLoop
    /\ LoopGuard
    /\ Head(queue).obj \notin visited
    /\ LET e == Head(queue)
           obj == e.obj
           path == e.path
           depth == e.depth
           last == path[Len(path)]
       IN
       /\ visited' = visited \cup {obj}
       /\ count' = count + 1
       /\ visitSeq' = Append(visitSeq, <<obj, depth>>)
       /\ IF ExcludeRaises(obj) \/ (~IsExcluded(obj) /\ MatchRaises(obj, last, path, rules))
          THEN /\ pc' = "raised"
               /\ queue' = PopLeft(queue)
               /\ UNCHANGED <<findings, getattrs, fetched, expanded, orders>>
          ELSE IF IsExcluded(obj)
          THEN /\ queue' = PopLeft(queue)
               /\ UNCHANGED <<findings, pc, getattrs, fetched, expanded, orders>>
          ELSE IF DepthReached(depth)
          THEN /\ queue' = PopLeft(queue)
               /\ findings' = findings \o FindingsOf(obj, last, path, depth, e.parent)
               /\ UNCHANGED <<pc, getattrs, fetched, expanded, orders>>
          ELSE \E order \in Orders(CandidateNames(obj)) :
                 LET acc == ExpandNames(order, obj, path, depth,
                              [ findings |-> findings \o FindingsOf(obj, last, path, depth, e.parent),
                                queue |-> PopLeft(queue), getattrs |-> getattrs,
                                fetched |-> fetched, raised |-> FALSE ])
                 IN  /\ findings' = acc.findings
                     /\ queue' = acc.queue
                     /\ getattrs' = acc.getattrs
                     /\ fetched' = acc.fetched
                     /\ expanded' = expanded \cup {<<obj, depth>>}
                     /\ orders' = orders \cup {<<obj, order>>}
                     /\ pc' = IF acc.raised THEN "raised" ELSE pc
    /\ UNCHANGED <<args, i, warned, harness>>

\* line 320: the loop condition fails and scan_roots returns findings
Return ==
    /\ InLoop
    /\ ~LoopGuard
    /\ pc' = "done"
    /\ UNCHANGED <<args, i, queue, visited, findings, count, warned, getattrs, fetched, expanded,
                   visitSeq, orders, harness>>

Next == ImportRoot \/ ImportRootFails \/ SkipVisited \/ Visit \/ Return

Spec == Init /\ [][Next]_vars

\* calls with the accessor and the instance following at their defaults
InitDefaults == Init /\ ~risk_getattr /\ ~follow_instances

\* the interpreter runs the call to its end
FairSpec == InitDefaults /\ [][Next]_vars /\ WF_vars(Next)

(***************************************************************************)
(* Properties of the walk.                                                 *)
(***************************************************************************)
\* the objects the declared table of o refers to
Children(o) == { Heap[o].dict[n] : n \in DOMAIN Heap[o].dict }

\* the objects whose attributes were enumerated
ExpandedObjects == { e[1] : e \in expanded }

\* C1: every call of scan_roots comes to an end, also on a graph with a
\* cycle, and when it returns the frontier is empty or count has reached
\* max_objects.
C1_Termination ==
    /\ <>(pc # "run")
    /\ [](pc = "done" => (queue = <<>> \/ count >= max_objects))

\* a call that walked round a cycle (two expanded objects that refer to each
\* other) and returned with budget to spare
C1_Witness ==
    /\ pc = "done"
    /\ queue = <<>>
    /\ count < max_objects
    /\ \E p \in ExpandedObjects : \E c \in ExpandedObjects \cap Children(p) :
          p \in Children(c)

\* C2: the number of visited identities never exceeds max_objects, and count
\* is the size of the visited set.
C2_BudgetRespected ==
    /\ Cardinality(visited) <= max_objects
    /\ count = Cardinality(visited)

\* a call the budget cut short: it returned with entries left in the frontier
C2_Witness ==
    /\ pc = "done"
    /\ max_objects > 0
    /\ count = max_objects
    /\ queue # <<>>

\* a module and a second module that two of its attributes refer to
TwoAttributesOf(r, s) ==
    /\ IsModule(r) /\ IsModule(s)
    /\ \E n1 \in DOMAIN Heap[r].dict : \E n2 \in DOMAIN Heap[r].dict :
          n1 # n2 /\ Heap[r].dict[n1] = s /\ Heap[r].dict[n2] = s

\* the objects the roots resolve to
RootObjects == { Importable[roots[k]] : k \in { j \in DOMAIN roots : roots[j] \in DOMAIN Importable } }

\* C3: when two attributes of a root module refer to the same sub-module
\* and the scan visits it, the returned findings hold each match of the
\* sub-module once.
C3_OneSetOfFindings ==
    pc = "done" =>
      \A r \in RootObjects : \A s \in Objects :
        (TwoAttributesOf(r, s) /\ s \in visited) =>
          \A k \in DOMAIN findings : \A l \in DOMAIN findings :
            (k # l /\ findings[k].node = s /\ findings[l].node = s)
               => findings[k].match # findings[l].match

\* a module whose name starts with a configured excluded prefix
ExcludedModule(o) ==
    /\ o \in Objects
    /\ Heap[o].kind = "module"
    /\ Heap[o].nameKind = "str"
    /\ \E k \in DOMAIN exclude_module_prefixes :
          StartsWith(Heap[o].name, exclude_module_prefixes[k])

\* C4: the returned findings hold no finding for a module of an excluded
\* prefix, by whatever path the module was reached.
C4_NoFindingForExcluded ==
    pc = "done" => \A k \in DOMAIN findings : ~ExcludedModule(findings[k].node)

\* the objects o refers to, by its declared table or by a computed attribute
Edges(o) ==
    Children(o) \cup ({ Heap[o].computed[n] : n \in DOMAIN Heap[o].computed } \ {Raises})

RECURSIVE ReachFrom(_, _)
\* the objects reachable from S without going through an object of blocked
ReachFrom(S, blocked) ==
    LET T == S \cup UNION { Edges(o) : o \in S \ blocked } IN
    IF T = S THEN S ELSE ReachFrom(T, blocked)

\* an object reachable from the roots only through an excluded module
OnlyThroughExcluded(c) ==
    c \notin ReachFrom(RootObjects, { o \in Objects : ExcludedModule(o) })

\* C5: a module of an excluded prefix is never expanded: no attribute of it
\* is fetched, evaluated or enqueued, and nothing reachable only through it
\* has a finding.
C5_ExcludedNeverExpanded ==
    /\ \A o \in Objects : ExcludedModule(o) =>
          /\ o \notin ExpandedObjects
          /\ \A f \in fetched : f[1] # o
    /\ \A k \in DOMAIN findings :
          /\ ~ExcludedModule(findings[k].parent)
          /\ ~OnlyThroughExcluded(findings[k].node)
    /\ \A k \in DOMAIN queue : ~ExcludedModule(queue[k].parent)

\* a finished call that visited an excluded module holding a callable that
\* the rules match and that only this module leads to
C5_Witness ==
    /\ pc = "done"
    /\ \E o \in visited :
          /\ ExcludedModule(o)
          /\ \E n \in DOMAIN Heap[o].dict :
                LET c == Heap[o].dict[n] IN
                /\ IsCallable(c)
                /\ OnlyThroughExcluded(c)
                /\ match_rules(c, n, <<n>>, rules, categories) # <<>>

\* C6: no finding is deeper than max_depth + 1, and no frontier entry of
\* depth max_depth or more is expanded.
C6_DepthRespected ==
    /\ \A k \in DOMAIN findings : findings[k].depth <= max_depth + 1
    /\ \A e \in expanded : e[2] < max_depth

\* a finished call that visited a node with attributes at the deepest level
\* and left it unexpanded, with a finding at that level
C6_Witness ==
    /\ pc = "done"
    /\ max_depth > 0
    /\ \E k \in DOMAIN findings :
          /\ findings[k].depth = max_depth
          /\ findings[k].node \in visited \ ExpandedObjects
          /\ ~ExcludedModule(findings[k].node)
          /\ Children(findings[k].node) # {}

\* C7: with max_depth = 0 every finding is of depth 0 with a root name as
\* its path, and no attribute is fetched, evaluated or enqueued.
C7_DepthZero ==
    max_depth = 0 =>
      /\ \A k \in DOMAIN findings :
            /\ findings[k].depth = 0
            /\ \E j \in DOMAIN roots : findings[k].path = roots[j]
      /\ fetched = {}
      /\ expanded = {}
      /\ \A k \in DOMAIN queue : queue[k].depth = 0

\* a finished call with max_depth = 0 that reported a root that has
\* attributes
C7_Witness ==
    /\ pc = "done"
    /\ max_depth = 0
    /\ \E k \in DOMAIN findings :
          /\ findings[k].node \in RootObjects
          /\ Children(findings[k].node) # {}

\* C8: with risk mode off the accessor never calls getattr for a candidate
\* name: every child evaluated or enqueued is the entry of its name in the
\* declared table of its parent.
C8_SafeModeNonInvasive ==
    ~risk_getattr =>
      /\ getattrs = 0
      /\ \A k \in DOMAIN findings :
            LET f == findings[k] IN
            f.parent # NoObject =>
              /\ f.name \in DOMAIN Heap[f.parent].dict
              /\ Heap[f.parent].dict[f.name] = f.node
      /\ \A k \in DOMAIN queue :
            LET e == queue[k] IN
            e.parent # NoObject =>
              /\ e.name \in DOMAIN Heap[e.parent].dict
              /\ Heap[e.parent].dict[e.name] = e.obj

\* a finished call in safe mode that asked the accessor for a name that is
\* outside the declared table and that getattr would resolve
C8_Witness ==
    /\ pc = "done"
    /\ ~risk_getattr
    /\ \E f \in fetched :
          /\ f[2] \notin DOMAIN Heap[f[1]].dict
          /\ f[2] \in DOMAIN Heap[f[1]].computed
          /\ Heap[f[1]].computed[f[2]] # Raises

\* C9: the root module root with the one declared attribute danger, bound to
\* a function named system, scanned with the one rule on the category
\* system, gives exactly one finding, of depth 1, path root.danger and
\* reason category:system.
C9_DangerScenario ==
    ( /\ pc = "done"
      /\ roots = <<"root">>
      /\ rules = <<Rule("category", None, "system")>>
      /\ categories = EmptyMap
      /\ max_depth >= 1
      /\ max_objects >= 1 )
    => /\ Len(findings) = 1
       /\ findings[1].depth = 1
       /\ findings[1].path = "root.danger"
       /\ findings[1].match.reason = "category:system"

\* C10: no failure leaves a started scan: scan_roots always returns.
C10_NoFailureEscapes == pc # "raised"

RECURSIVE Seeds(_)
\* the frontier entries of the resolvable names of rs, in the order of rs
Seeds(rs) ==
    IF rs = <<>> THEN <<>>
    ELSE LET r == Head(rs) IN
         (IF r \in DOMAIN Importable
          THEN <<[obj |-> Importable[r], name |-> r, path |-> <<r>>, depth |-> 0,
                  parent |-> NoObject]>>
          ELSE <<>>) \o Seeds(Tail(rs))

\* C11: a root that cannot be resolved is skipped: before the first visit
\* the frontier holds, in the configured order and at depth 0, every
\* resolvable root among those tried so far, and a call in which no root
\* resolves raises nothing and finds nothing.
C11_UnresolvedRootSkipped ==
    /\ visited = {} => queue = Seeds(SubSeq(roots, 1, i - 1))
    /\ (\A k \in DOMAIN roots : roots[k] \notin DOMAIN Importable)
          => (pc # "raised" /\ findings = <<>>)

\* a finished call that visited a root listed after an unresolvable one
C11_Witness ==
    /\ pc = "done"
    /\ \E j \in DOMAIN roots : \E k \in DOMAIN roots :
          /\ j < k
          /\ roots[j] \notin DOMAIN Importable
          /\ roots[k] \in DOMAIN Importable
          /\ Importable[roots[k]] \in visited

\* the node kinds the classifier is said to let through
ClaimedTraversable(o, fc, fi) ==
    \/ Heap[o].kind = "module"
    \/ Heap[o].kind = "class" /\ fc
    \/ Heap[o].kind = "instance" /\ Heap[o].hasDict /\ fi

\* C18: a child is enqueued exactly when it is a module, a class with
\* follow_classes set, or a generic instance with follow_instances set; no
\* class is enqueued with follow_classes unset and no plain callable ever.
C18_TraversableKinds ==
    \A k \in DOMAIN queue :
       queue[k].parent # NoObject =>
          ClaimedTraversable(queue[k].obj, follow_classes, follow_instances)

\* the names of the roots that resolve
ResolvedRoots == { roots[k] : k \in { j \in DOMAIN roots : roots[j] \in DOMAIN Importable } }

\* the objects the scan gets from p and may enqueue
Yields(p) ==
    { SafeGetAttr_get(risk_getattr, p, n).val :
        n \in { m \in CandidateNames(p) : ~SafeGetAttr_get(risk_getattr, p, m).missing } }

\* C19: identities are marked visited in non-decreasing depth; the depth of
\* every frontier entry and finding is the length of its discovery path
\* less one, and the path starts at a resolved root; a visited node is no
\* deeper than one level below any expanded node that yields it.
C19_BreadthFirst ==
    /\ \A k \in DOMAIN visitSeq : \A l \in DOMAIN visitSeq :
          k < l => visitSeq[k][2] <= visitSeq[l][2]
    /\ \A k \in DOMAIN queue :
          /\ queue[k].depth = Len(queue[k].path) - 1
          /\ queue[k].path[1] \in ResolvedRoots
    /\ \A k \in DOMAIN findings :
          /\ findings[k].depth = Len(findings[k].names) - 1
          /\ findings[k].names[1] \in ResolvedRoots
    /\ \A e \in expanded : \A k \in DOMAIN visitSeq :
          visitSeq[k][1] \in Yields(e[1]) => visitSeq[k][2] <= e[2] + 1

\* a finished call in which an expanded node yields a node that was visited
\* at a smaller depth, by a shorter chain
C19_Witness ==
    /\ pc = "done"
    /\ \E e \in expanded : \E k \in DOMAIN visitSeq :
          /\ visitSeq[k][1] \in Yields(e[1])
          /\ visitSeq[k][2] < e[2] + 1

(***************************************************************************)
(* Two calls of scan_roots with the same arguments, one after the other.   *)
(***************************************************************************)
\* the visited set is kept from one call to the next
NewVisited_kept(old) == old

\* line 260: every call starts with a visited set of its own
NewVisited(old) == {}

\* what a call leaves behind: how it ended, its findings, the order of its
\* visits and the attribute orders the host gave it
Outcome == [ pc |-> pc, findings |-> findings, visitSeq |-> visitSeq, orders |-> orders ]

\* the first call has ended; scan_roots is called again with the same
\* arguments
Rerun ==
    /\ pc \in {"done", "raised"}
    /\ prev = <<>>
    /\ prev' = <<Outcome>>
    /\ pc' = "run"
    /\ i' = 1
    /\ queue' = <<>>
    /\ visited' = NewVisited(visited)
    /\ findings' = <<>>
    /\ count' = 0
    /\ warned' = <<>>
    /\ getattrs' = 0
    /\ fetched' = {}
    /\ expanded' = {}
    /\ visitSeq' = <<>>
    /\ orders' = {}
    /\ UNCHANGED <<args, mpc, DEFAULT_CONFIG, cfg, cli, report, invocations, probe>>

\* the host gave this call, for every node both calls expanded, the order
\* it gave the earlier call
SameOrders ==
    prev # <<>> => \A a \in orders : \A b \in prev[1].orders : a[1] = b[1] => a[2] = b[2]

\* one pass of the loop on a host that enumerates the attributes of a node
\* in the order it gave before
VisitSameOrder == Visit /\ SameOrders'

NextTwin == ImportRoot \/ ImportRootFails \/ SkipVisited \/ VisitSameOrder \/ Return \/ Rerun

\* the calls that are repeated: classes followed, no module excluded, the
\* depth and the budget either small or at their defaults
InitTwin ==
    /\ Init
    /\ roots \in { <<"host">>, <<"nosuch", "app">> }
    /\ max_depth \in {MaxDepthBound, DefaultMaxDepth}
    /\ max_objects \in {MaxObjectsBound, DefaultMaxObjects}
    /\ follow_classes
    /\ exclude_module_prefixes = <<>>

TwinSpec == InitTwin /\ [][NextTwin]_vars

AttrNames ==
    UNION { DOMAIN Heap[o].dict \cup Heap[o].dirNames \cup DOMAIN Heap[o].computed : o \in Objects }
      \cup {"absent"}

\* a rule that matches every child fetched under the name n
NameRule(n) == <<Rule("attr_name", n, None)>>

InitAccess ==
    /\ \E o \in Objects : \E n \in AttrNames :
          /\ probe = [ stage |-> "in", obj |-> o, name |-> n, got |-> Missing(FALSE),
                       findings |-> <<>>, queue |-> <<>> ]
          /\ rules = NameRule(n)
    /\ categories = EmptyMap
    /\ roots = <<>>
    /\ max_depth = DefaultMaxDepth
    /\ max_objects = DefaultMaxObjects
    /\ prune_dunders = FALSE
    /\ risk_getattr \in BOOLEAN
    /\ follow_classes \in BOOLEAN
    /\ follow_instances \in BOOLEAN
    /\ exclude_module_prefixes = <<>>
    /\ ScanStart
    /\ pc = "probe"
    /\ prev = <<>> /\ mpc = "off" /\ DEFAULT_CONFIG = DefaultConfig /\ cfg = <<>>
    /\ cli = <<>> /\ report = <<>> /\ invocations = 0

\* sg.get(obj, n), line 303
Get ==
    /\ pc = "probe"
    /\ probe.stage = "in"
    /\ probe' = [probe EXCEPT !.stage = "got",
                              !.got = SafeGetAttr_get(risk_getattr, probe.obj, probe.name)]
    /\ UNCHANGED <<args, i, queue, visited, findings, count, pc, warned, getattrs, fetched,
                   expanded, visitSeq, orders, prev, mpc, DEFAULT_CONFIG, cfg, cli, report,
                   invocations>>

\* lines 302-318 for the one name
LoopBody ==
    /\ pc = "probe"
    /\ probe.stage = "got"
    /\ LET acc == ExpandNames(<<probe.name>>, probe.obj, <<"p">>, 0,
                     [ findings |-> <<>>, queue |-> <<>>, getattrs |-> 0, fetched |-> {},
                       raised |-> FALSE ])
       IN  /\ probe' = [probe EXCEPT !.stage = "scanned", !.findings = acc.findings,
                                     !.queue = acc.queue]
           /\ fetched' = acc.fetched
           /\ getattrs' = acc.getattrs
    /\ UNCHANGED <<args, i, queue, visited, findings, count, pc, warned, expanded, visitSeq,
                   orders, prev, mpc, DEFAULT_CONFIG, cfg, cli, report, invocations>>

NextAccess == Get \/ LoopBody

AccessSpec == InitAccess /\ [][NextAccess]_vars

\* C13: the accessor returns the value stored under the name in the node's
\* attribute table in both modes, None included; for a name outside the
\* table it returns in risk mode what the general lookup gives, or the
\* sentinel when the lookup fails, and in safe mode the sentinel; the loop
\* body skips the child exactly when the accessor returned the sentinel.
C13_ThreeOutcomes ==
    probe.stage # "in" =>
       LET h == Heap[probe.obj]
           n == probe.name
           stored == h.hasDict /\ n \in DOMAIN h.dict
           found == n \in DOMAIN h.computed /\ h.computed[n] # Raises
       IN  /\ stored => (~probe.got.missing /\ probe.got.val = h.dict[n])
           /\ (~stored /\ risk_getattr /\ found)
                 => (~probe.got.missing /\ probe.got.val = h.computed[n])
           /\ (~stored /\ risk_getattr /\ ~found) => probe.got.missing
           /\ (~stored /\ ~risk_getattr) => probe.got.missing
           /\ probe.stage = "scanned"
                 => /\ (probe.findings = <<>>) <=> probe.got.missing
                    /\ probe.got.missing => probe.queue = <<>>
                    /\ fetched = {<<probe.obj, n>>}

\* the loop body reported a stored None as a child
C13_Witness ==
    /\ probe.stage = "scanned"
    /\ ~probe.got.missing
    /\ Heap[probe.got.val].typeName = "NoneType"
    /\ probe.findings # <<>>

(***************************************************************************)
(* match_rules applied to one node under one name and path.                *)
(***************************************************************************)
\* the longest list of rules
MaxRules == 2

\* the rules the lists are made of
RuleUniverse ==
    { Rule("category", None, "system"), Rule("category", None, "builtin"),
      Rule("attr_name", "cfg", None), Rule("callable_name", "popen", None),
      Rule("module_startswith", "vendor", None), Rule("qualname_regex", "o", None),
      Rule("qualname_regex", "(", None), Rule("qualname_regex", "o{99999999999}", None) }

RuleLists == UNION { [1 .. n -> RuleUniverse] : n \in 0 .. MaxRules }

\* the category definitions of a configuration: none, callables only,
\* modules only, and sets for both categories
CategoryConfigs ==
    { EmptyMap,
      "system" :> [modules |-> {}, callables |-> {"danger"}],
      "system" :> [modules |-> {"vendor.tools"}, callables |-> {}],
      ("system" :> [modules |-> {}, callables |-> {}] @@
       "builtin" :> [modules |-> {"os"}, callables |-> {"popen"}]) }

\* the (child, name, path) triples scan_roots passes: a root under its own
\* name, and every attribute of a named object under the attribute's name
Probes ==
    { [child |-> Importable[r], name |-> r, path |-> <<r>>] : r \in DOMAIN Importable }
    \cup UNION { { [child |-> Heap[o].dict[n], name |-> n, path |-> <<Heap[o].name, n>>] :
                     n \in DOMAIN Heap[o].dict } :
                 o \in { x \in Objects : Heap[x].nameKind = "str" } }

InitMatch ==
    /\ \E t \in Probes :
          probe = [ stage |-> "in", child |-> t.child, name |-> t.name, path |-> t.path,
                    raised |-> FALSE, hits |-> <<>> ]
    /\ rules \in RuleLists
    /\ categories \in CategoryConfigs
    /\ roots = <<>>
    /\ max_depth = DefaultMaxDepth
    /\ max_objects = DefaultMaxObjects
    /\ prune_dunders = TRUE
    /\ risk_getattr = FALSE
    /\ follow_classes = TRUE
    /\ follow_instances = FALSE
    /\ exclude_module_prefixes = <<>>
    /\ ScanStart
    /\ pc = "probe"
    /\ prev = <<>> /\ mpc = "off" /\ DEFAULT_CONFIG = DefaultConfig /\ cfg = <<>>
    /\ cli = <<>> /\ report = <<>> /\ invocations = 0

\* match_rules(child, name, path, rules, categories=categories)
ApplyMatch ==
    /\ pc = "probe"
    /\ probe.stage = "in"
    /\ LET raised == MatchRaises(probe.child, probe.name, probe.path, rules) IN
       probe' = [probe EXCEPT
                   !.stage = "out",
                   !.raised = raised,
                   !.hits = IF raised THEN <<>>
                            ELSE match_rules(probe.child, probe.name, probe.path, rules,
                                             categories)]
    /\ UNCHANGED <<args, i, queue, visited, findings, count, pc, warned, getattrs, fetched,
                   expanded, visitSeq, orders, prev, mpc, DEFAULT_CONFIG, cfg, cli, report,
                   invocations>>

NextMatch == ApplyMatch

MatchSpec == InitMatch /\ [][NextMatch]_vars

RECURSIVE HitsOneByOne(_, _, _, _, _)
\* the hits of the rules of rs, each evaluated in a configuration of its own
HitsOneByOne(child, name, path, rs, cats) ==
    IF rs = <<>> THEN <<>>
    ELSE (IF MatchRaises(child, name, path, <<Head(rs)>>) THEN <<>>
          ELSE match_rules(child, name, path, <<Head(rs)>>, cats))
         \o HitsOneByOne(child, name, path, Tail(rs), cats)

\* C14: match_rules returns, in the order of the rules, the hits each rule
\* gives when it is evaluated alone: one hit per matching rule, whatever
\* the other rules of the configuration are.
C14_IndependentRules ==
    probe.stage = "out" =>
       /\ ~probe.raised
       /\ probe.hits = HitsOneByOne(probe.child, probe.name, probe.path, rules, categories)

\* the module and callable sets in force for the category system
SystemSets ==
    LET configured == /\ "system" \in DOMAIN categories
                      /\ (categories["system"].modules # {} \/ categories["system"].callables # {})
    IN  IF configured
        THEN [modules |-> categories["system"].modules, callables |-> categories["system"].callables]
        ELSE [modules |-> SYSTEM_MODULES, callables |-> SYSTEM_CALLABLES]

\* what a category rule on cat is to match
CategoryMatches(cat) ==
    LET h == Heap[probe.child] IN
    IF cat = "system"
    THEN \/ h.kind = "module" /\ h.nameKind = "str" /\ h.name \in SystemSets.modules
         \/ h.kind \in {"function", "class"} /\ probe.name \in SystemSets.callables
    ELSE h.kind = "module" /\ is_builtin_module(probe.child)

\* C15: a category rule on system uses the configured sets when the
\* configuration gives a non-empty definition and the built-in sets
\* otherwise, and hits exactly a module named in the module set or a callable
\* whose terminal name is in the callable set; a category rule on builtin
\* hits exactly the built-in modules, whatever sets are configured.
C15_CategoryRule ==
    (probe.stage = "out" /\ ~probe.raised) =>
       \A r \in { x \in RuleUniverse : x.type = "category" } :
          (\E k \in DOMAIN rules : rules[k] = r)
             => ((\E k \in DOMAIN probe.hits : probe.hits[k].rule = r)
                   <=> CategoryMatches(r.category))

\* a system rule hit through a configured callable name that the built-in
\* set does not hold, next to a builtin rule with configured sets
C15_Witness ==
    /\ probe.stage = "out"
    /\ ~probe.raised
    /\ "system" \in DOMAIN categories
    /\ probe.name \in categories["system"].callables
    /\ probe.name \notin SYSTEM_CALLABLES
    /\ \E k \in DOMAIN probe.hits : probe.hits[k].rule.category = "system"

\* re.compile rejects the pattern
Uncompilable(pat) == pat # None /\ (IsMalformed(pat) \/ RepeatOverflows(pat))

\* rs without its k-th rule
Without(rs, k) == SubSeq(rs, 1, k - 1) \o SubSeq(rs, k + 1, Len(rs))

\* C16: a qualname_regex rule of a malformed pattern gives no hit and does
\* not end the evaluation: the hit list is the one of the configuration
\* without that rule.
C16_MalformedPattern ==
    probe.stage = "out" =>
       \A k \in DOMAIN rules :
          (rules[k].type = "qualname_regex" /\ Uncompilable(rules[k].pattern))
             => /\ ~probe.raised
                /\ probe.hits = HitsOneByOne(probe.child, probe.name, probe.path,
                                             Without(rules, k), categories)

(***************************************************************************)
(* main: the command line, the configuration it merges, the scan and the   *)
(* report.                                                                 *)
(***************************************************************************)
\* the most calls of main in one run of the interpreter
MaxInvocations == 2

\* the default of the option --limit, line 361
LimitDefault == 5000

RECURSIVE Strip(_)
\* str.strip() for blanks
Strip(t) ==
    IF t = "" THEN t
    ELSE IF SubSeq(t, 1, 1) = " " THEN Strip(SubSeq(t, 2, Len(t)))
    ELSE IF SubSeq(t, Len(t), Len(t)) = " " THEN Strip(SubSeq(t, 1, Len(t) - 1))
    ELSE t

RECURSIVE SplitFrom(_, _, _)
\* the pieces of t between commas from position k on, cur being the piece
\* read so far
SplitFrom(t, k, cur) ==
    IF k > Len(t) THEN <<cur>>
    ELSE IF SubSeq(t, k, k) = "," THEN <<cur>> \o SplitFrom(t, k + 1, "")
    ELSE SplitFrom(t, k + 1, cur \o SubSeq(t, k, k))

RECURSIVE StripAll(_)
\* [r.strip() for r in pieces if r.strip()]
StripAll(pieces) ==
    IF pieces = <<>> THEN <<>>
    ELSE (IF Strip(Head(pieces)) = "" THEN <<>> ELSE <<Strip(Head(pieces))>>)
         \o StripAll(Tail(pieces))

\* lines 403 and 405: the names of a comma-separated option
Names(t) == StripAll(SplitFrom(t, 1, ""))

\* the options of one command line; an option that was not given is "" for
\* a text and <<>> for a number
Cli(config, r, targets, depth, risk, out, limit) ==
    [ config |-> config, roots |-> r, targets |-> targets, max_depth |-> depth,
      risk_getattr |-> risk, json_out |-> out, limit |-> limit ]

\* the configuration file the option -c names
ConfigFile ==
    [ roots  |-> <<"app">>,
      rules  |-> <<Rule("category", None, "system")>>,
      scan   |-> [ max_depth |-> 2, max_objects |-> 100, prune_dunders |-> TRUE,
                   risk_getattr |-> FALSE, follow_classes |-> TRUE,
                   follow_instances |-> FALSE, exclude_module_prefixes |-> <<>> ],
      output |-> [ json_path |-> "file_report.json", limit |-> 1 ] ]

CommandLines ==
    { Cli(FALSE, "", "", <<>>, FALSE, "", <<>>),
      Cli(FALSE, "", "system", <<>>, FALSE, "", <<>>),
      Cli(FALSE, "", "", <<1>>, TRUE, "", <<>>),
      Cli(FALSE, "host", "", <<>>, FALSE, "", <<>>),
      Cli(TRUE, "", "", <<>>, FALSE, "", <<>>),
      Cli(TRUE, "", "", <<>>, FALSE, "", <<0>>),
      Cli(FALSE, "", "", <<>>, FALSE, "out.json", <<2>>),
      Cli(FALSE, " app,,nosuch", "", <<>>, FALSE, "", <<1>>) }

\* args.limit: argparse fills in the default when the option is not given
ArgsLimit(c) == IF c.limit = <<>> THEN LimitDefault ELSE c.limit[1]

RECURSIVE TargetRules(_)
\* line 407: one category rule per target
TargetRules(ts) ==
    IF ts = <<>> THEN <<>>
    ELSE <<Rule("category", None, Head(ts))>> \o TargetRules(Tail(ts))

\* lines 397-416: cfg after the overrides of the command line c, starting
\* from the configuration base
Merged(base, c) ==
    [ roots  |-> IF c.roots # "" THEN Names(c.roots) ELSE base.roots,
      rules  |-> base.rules \o (IF c.targets # "" THEN TargetRules(Names(c.targets)) ELSE <<>>),
      scan   |-> [ base.scan EXCEPT
                     !.max_depth = IF c.max_depth # <<>> THEN c.max_depth[1] ELSE @,
                     !.risk_getattr = IF c.risk_getattr THEN TRUE ELSE @ ],
      output |-> [ base.output EXCEPT
                     !.json_path = IF c.json_out # "" THEN c.json_out ELSE @,
                     !.limit = ArgsLimit(c) ] ]

\* DEFAULT_CONFIG after main changed cfg to m: dict.copy() copies the top
\* level only, so cfg["roots"] = ... rebinds a key of the copy, while the
\* list under rules and the dictionaries under scan and output are the
\* objects DEFAULT_CONFIG holds and change in place
AfterShallowCopy(m) ==
    [ DEFAULT_CONFIG EXCEPT !.rules = m.rules, !.scan = m.scan, !.output = m.output ]

InitMain ==
    /\ roots = <<>>
    /\ rules = <<>>
    /\ categories = EmptyMap
    /\ max_depth = DefaultMaxDepth
    /\ max_objects = DefaultMaxObjects
    /\ prune_dunders = TRUE
    /\ risk_getattr = FALSE
    /\ follow_classes = TRUE
    /\ follow_instances = FALSE
    /\ exclude_module_prefixes = <<>>
    /\ ScanStart
    /\ pc = "idle"
    /\ prev = <<>>
    /\ mpc = "args"
    /\ DEFAULT_CONFIG = DefaultConfig
    /\ cfg = <<>>
    /\ cli = <<>>
    /\ report = <<>>
    /\ invocations = 0
    /\ probe = <<>>

\* lines 349-418 and 324-341: main parses a command line, merges the
\* configuration and calls scan_roots through run_with_config
Main ==
    /\ mpc = "args"
    /\ invocations < MaxInvocations
    /\ \E c \in CommandLines :
          LET m == Merged(IF c.config THEN ConfigFile ELSE DEFAULT_CONFIG, c) IN
          /\ cli' = <<c>>
          /\ cfg' = <<m>>
          /\ DEFAULT_CONFIG' = IF c.config THEN DEFAULT_CONFIG ELSE AfterShallowCopy(m)
          /\ roots' = m.roots
          /\ rules' = m.rules
          /\ max_depth' = m.scan.max_depth
          /\ max_objects' = m.scan.max_objects
          /\ prune_dunders' = m.scan.prune_dunders
          /\ risk_getattr' = m.scan.risk_getattr
          /\ follow_classes' = m.scan.follow_classes
          /\ follow_instances' = m.scan.follow_instances
          /\ exclude_module_prefixes' = m.scan.exclude_module_prefixes
    /\ categories' = EmptyMap
    /\ i' = 1
    /\ queue' = <<>>
    /\ visited' = NewVisited(visited)
    /\ findings' = <<>>
    /\ count' = 0
    /\ warned' = <<>>
    /\ getattrs' = 0
    /\ fetched' = {}
    /\ expanded' = {}
    /\ visitSeq' = <<>>
    /\ orders' = {}
    /\ pc' = "run"
    /\ mpc' = "scan"
    /\ report' = <<>>
    /\ invocations' = invocations + 1
    /\ UNCHANGED <<prev, probe>>

\* lines 343-345: the number of findings of each reason
Summary(fs) ==
    [ r \in { fs[k].match.reason : k \in DOMAIN fs } |->
        Cardinality({ k \in DOMAIN fs : fs[k].match.reason = r }) ]

\* findings[:limit]
Slice(fs, limit) == SubSeq(fs, 1, IF limit < Len(fs) THEN limit ELSE Len(fs))

\* lines 432-447: the payload of the report, without its time stamp
Payload ==
    LET limit == cfg[1].output.limit IN
    [ roots |-> cfg[1].roots, rules |-> cfg[1].rules, scan |-> cfg[1].scan,
      summary |-> Summary(findings), total_matches |-> Len(findings),
      findings |-> IF limit = 0 THEN findings ELSE Slice(findings, limit) ]

\* scan_roots returned: main prints the summary, writes the report and
\* returns 0
WriteReport ==
    /\ mpc = "scan"
    /\ pc = "done"
    /\ report' = <<Payload>>
    /\ mpc' = "args"
    /\ pc' = "idle"
    /\ UNCHANGED <<args, i, queue, visited, findings, count, warned, getattrs, fetched,
                   expanded, visitSeq, orders, prev, DEFAULT_CONFIG, cfg, cli, invocations,
                   probe>>

\* the exception that left scan_roots leaves main; no report is written
MainRaises ==
    /\ mpc = "scan"
    /\ pc = "raised"
    /\ mpc' = "args"
    /\ pc' = "idle"
    /\ UNCHANGED <<args, i, queue, visited, findings, count, warned, getattrs, fetched,
                   expanded, visitSeq, orders, prev, DEFAULT_CONFIG, cfg, cli, report,
                   invocations, probe>>

NextMain ==
    Main \/ ImportRoot \/ ImportRootFails \/ SkipVisited \/ Visit \/ Return
      \/ WriteReport \/ MainRaises

MainSpec == InitMain /\ [][NextMain]_vars

RECURSIVE SumOver(_, _)
\* the sum of the values of the function f over the keys S
SumOver(f, S) ==
    IF S = {} THEN 0
    ELSE LET x == CHOOSE y \in S : TRUE IN f[x] + SumOver(f, S \ {x})

\* the limit the configuration asks for: the one of the command line when
\* the option is given, else output.limit of the loaded configuration
ConfiguredLimit ==
    IF cli[1].limit # <<>> THEN cli[1].limit[1]
    ELSE IF cli[1].config THEN ConfigFile.output.limit
    ELSE DefaultConfig.output.limit

\* C17: the report counts all findings of the scan, its summary adds up to
\* that count, and it lists the first min(L, total) findings, all of them
\* when L = 0, L being output.limit of the configuration when the command
\* line gives no limit.
C17_ReportLimit ==
    report # <<>> =>
       LET r == report[1]
           total == Len(findings)
           L == ConfiguredLimit
       IN  /\ r.total_matches = total
           /\ SumOver(r.summary, DOMAIN r.summary) = total
           /\ r.findings = SubSeq(findings, 1, IF L = 0 \/ total < L THEN total ELSE L)

\* C20: DEFAULT_CONFIG and the values under its keys rules, scan and output
\* are after every call of main what they were when the module was loaded.
C20_DefaultConfigUnchanged == DEFAULT_CONFIG = DefaultConfig

====
